---- MODULE Spec2Model ----
(***************************************************************************)
(* A model of the extraction core of XHS_Downloader_Android's API package  *)
(* (src/api/xhs_downloader_api/xhs.py): the payload normaliser, the JSON   *)
(* parse of the embedded state, the note locator, the media extractor, the *)
(* CDN URL rewrite and the regex fallback scanner.                         *)
(*                                                                         *)
(* A Python str is a sequence of one-character strings, indexed from 0 as  *)
(* in the source (character i of s is s[i + 1]).  A value produced by      *)
(* json.loads is a record [t, s, keys, kids]: t is the Python type, s the  *)
(* text of a str or number, keys and kids the keys and values of a dict in *)
(* insertion order (kids alone: the elements of a list).                   *)
(***************************************************************************)
EXTENDS Naturals, Integers, Sequences, FiniteSets, TLC

VARIABLES pc, html, fault, notes, fallback_urls, payload, normalised, root, note_objects, index, note, media_items, raw_urls, url, once, twice, scan_state

vars == <<pc, html, fault, notes, fallback_urls, payload, normalised, root, note_objects, index, note, media_items, raw_urls, url, once, twice, scan_state>>

\* The variables of _transform_xhs_cdn_url's round trip, which _parse_post_details leaves alone
canonVars == <<url, once, twice>>

\* The locals of _extract_media_from_note's caller
mediaVars == <<note, media_items, raw_urls>>

\* ------------------------------------------------------------------ str

UPPER == <<"A","B","C","D","E","F","G","H","I","J","K","L","M","N","O","P","Q","R","S","T","U","V","W","X","Y","Z">>

LOWER == <<"a","b","c","d","e","f","g","h","i","j","k","l","m","n","o","p","q","r","s","t","u","v","w","x","y","z">>

DIGITS == <<"0","1","2","3","4","5","6","7","8","9">>

Range(s) == {s[k] : k \in 1..Len(s)}

Min(S) == CHOOSE x \in S : \A y \in S : x <= y

Max(S) == CHOOSE x \in S : \A y \in S : x >= y

\* str.lower() of one character (ASCII letters; the model's alphabet holds no other cased character)
LowerChar(c) == IF \E k \in 1..26 : UPPER[k] = c THEN LOWER[CHOOSE k \in 1..26 : UPPER[k] = c] ELSE c

\* str.lower()
Lower(s) == [k \in 1..Len(s) |-> LowerChar(s[k])]

\* s[a:b] for 0 <= a, b (Python clamps b to len(s), and yields "" when a >= b)
Slice(s, a, b) == IF a >= b \/ a >= Len(s) THEN <<>> ELSE SubSeq(s, a + 1, IF b > Len(s) THEN Len(s) ELSE b)

\* s.startswith(pat, i)
StartsWith(s, pat, i) == i + Len(pat) <= Len(s) /\ SubSeq(s, i + 1, i + Len(pat)) = pat

\* re.IGNORECASE: the lower-case pattern pat matches at index i whatever the case of s
StartsWithLower(s, pat, i) == i + Len(pat) <= Len(s) /\ \A k \in 1..Len(pat) : LowerChar(s[i + k]) = pat[k]

\* pat in s
Contains(s, pat) == \E i \in 0..(Len(s) - Len(pat)) : StartsWith(s, pat, i)

\* s.find(pat, from): the lowest index at or after from where pat starts, -1 when there is none
Find(s, pat, from) ==
    LET at == {i \in from..(Len(s) - Len(pat)) : StartsWith(s, pat, i)}
    IN IF at = {} THEN -1 ELSE Min(at)

\* s.endswith(pat)
EndsWith(s, pat) == Len(s) >= Len(pat) /\ SubSeq(s, Len(s) - Len(pat) + 1, Len(s)) = pat

\* The characters str.strip() removes and \s matches (ASCII)
Whitespace == {" ", "\t", "\n", "\r", "\f"}

\* s.strip()
Strip(s) ==
    LET keep == {k \in 1..Len(s) : s[k] \notin Whitespace}
    IN IF keep = {} THEN <<>> ELSE SubSeq(s, Min(keep), Max(keep))

RECURSIVE Split(_, _)
\* s.split(c) for a one-character separator c
Split(s, c) ==
    LET at == {k \in 1..Len(s) : s[k] = c}
    IN IF at = {} THEN <<s>>
       ELSE <<SubSeq(s, 1, Min(at) - 1)>> \o Split(SubSeq(s, Min(at) + 1, Len(s)), c)

RECURSIVE Join(_, _)
\* c.join(parts)
Join(parts, c) ==
    IF Len(parts) = 0 THEN <<>>
    ELSE IF Len(parts) = 1 THEN parts[1]
    ELSE parts[1] \o <<c>> \o Join(Tail(parts), c)

RECURSIVE Concat(_)
\* "".join(parts)
Concat(parts) == IF Len(parts) = 0 THEN <<>> ELSE parts[1] \o Concat(Tail(parts))

\* A greedy character class [S]*: the index after the longest run of characters of S from index i
RunEnd(s, i, S) ==
    LET stop == {k \in i..(Len(s) - 1) : s[k + 1] \notin S}
    IN IF stop = {} THEN (IF i > Len(s) THEN i ELSE Len(s)) ELSE Min(stop)

\* A greedy negated class [^S]*: the index after the longest run of characters not in S from index i
RunEndNot(s, i, S) ==
    LET stop == {k \in i..(Len(s) - 1) : s[k + 1] \in S}
    IN IF stop = {} THEN (IF i > Len(s) THEN i ELSE Len(s)) ELSE Min(stop)

\* Eight applications of F: the loops below run eight iterations of their body at a time, each
\* iteration being the identity once the loop has ended
Iterate8(F(_), x) == F(F(F(F(F(F(F(F(x))))))))

\* Sequences over S of length 0..n
SeqUpTo(S, n) == UNION {[1..k -> S] : k \in 0..n}

\* ------------------------------------------------------------------ normaliser

\* INVALID_JSON_VALUE_PATTERN, r":\s*(?:undefined|NaN|[+-]?Infinity)", matched at index p:
\* the index after the match, -1 when it does not match there
InvalidJsonValueEnd(s, p) ==
    IF ~(p < Len(s) /\ s[p + 1] = ":") THEN -1
    ELSE IF StartsWith(s, <<"u","n","d","e","f","i","n","e","d">>, RunEnd(s, p + 1, Whitespace)) THEN RunEnd(s, p + 1, Whitespace) + 9
    ELSE IF StartsWith(s, <<"N","a","N">>, RunEnd(s, p + 1, Whitespace)) THEN RunEnd(s, p + 1, Whitespace) + 3
    ELSE IF StartsWith(s, <<"+","I","n","f","i","n","i","t","y">>, RunEnd(s, p + 1, Whitespace)) THEN RunEnd(s, p + 1, Whitespace) + 9
    ELSE IF StartsWith(s, <<"-","I","n","f","i","n","i","t","y">>, RunEnd(s, p + 1, Whitespace)) THEN RunEnd(s, p + 1, Whitespace) + 9
    ELSE IF StartsWith(s, <<"I","n","f","i","n","i","t","y">>, RunEnd(s, p + 1, Whitespace)) THEN RunEnd(s, p + 1, Whitespace) + 8
    ELSE -1

\* One step of INVALID_JSON_VALUE_PATTERN.sub(": null", s): at index st.i, a match is replaced and
\* skipped, any other character is copied
SubStep(s, st) ==
    IF st.i >= Len(s) THEN st
    ELSE IF InvalidJsonValueEnd(s, st.i) # -1
    THEN [i |-> InvalidJsonValueEnd(s, st.i), acc |-> st.acc \o <<":"," ","n","u","l","l">>]
    ELSE [i |-> st.i + 1, acc |-> Append(st.acc, s[st.i + 1])]

RECURSIVE SubLoop(_, _)
SubLoop(s, st) == IF st.i >= Len(s) THEN st.acc ELSE SubLoop(s, Iterate8(LAMBDA t : SubStep(s, t), st))

\* payload = INVALID_JSON_VALUE_PATTERN.sub(": null", payload)
RegexPass(s) == SubLoop(s, [i |-> 0, acc |-> <<>>])

\* tokens: the JavaScript-only literals in the order the scan tries them
tokens == <<<<"+","I","n","f","i","n","i","t","y">>, <<"-","I","n","f","i","n","i","t","y">>, <<"I","n","f","i","n","i","t","y">>, <<"u","n","d","e","f","i","n","e","d">>, <<"N","a","N">>>>

\* is_identifier(char); char is "" at either end of the payload
is_identifier(char) == char \in Range(UPPER) \cup Range(LOWER) \cup Range(DIGITS) \cup {"_", "$"}

\* The scan's local variables before the loop
ScanInit == [i |-> 0, in_string |-> FALSE, escape |-> FALSE, quote_char |-> "", result |-> <<>>]

\* Whether token k is replaced at index i: it starts there and no identifier character adjoins it
TokenReplacedAt(s, i, k) ==
    /\ StartsWith(s, tokens[k], i)
    /\ ~is_identifier(IF i > 0 THEN s[i] ELSE "")
    /\ ~is_identifier(IF i + Len(tokens[k]) < Len(s) THEN s[i + Len(tokens[k]) + 1] ELSE "")

\* A scan that replaces no token; NormalisedPayloadParses tells it from TokenAt
TokenAtNever(s, i) == 0

\* The first token of the list that is replaced at index i, 0 when none is
TokenAt(s, i) ==
    IF \E k \in 1..Len(tokens) : TokenReplacedAt(s, i, k)
    THEN Min({k \in 1..Len(tokens) : TokenReplacedAt(s, i, k)})
    ELSE 0

\* One iteration of the while loop on the character ch = payload[i]
ScanChar(s, st, ch) ==
    IF st.in_string
    THEN [st EXCEPT !.result = Append(@, ch),
                    !.escape = IF st.escape THEN FALSE ELSE ch = "\\",
                    !.in_string = IF ~st.escape /\ ch # "\\" /\ ch = st.quote_char THEN FALSE ELSE TRUE,
                    !.i = @ + 1]
    ELSE IF ch \in {"\"", "'"}
    THEN [st EXCEPT !.in_string = TRUE, !.quote_char = ch, !.result = Append(@, ch), !.i = @ + 1]
    ELSE IF TokenAt(s, st.i) # 0
    THEN [st EXCEPT !.result = @ \o <<"n","u","l","l">>, !.i = @ + Len(tokens[TokenAt(s, st.i)])]
    ELSE [st EXCEPT !.result = Append(@, ch), !.i = @ + 1]

\* while i < length: one iteration, none once the loop has ended
ScanStep(s, st) == IF st.i < Len(s) THEN ScanChar(s, st, s[st.i + 1]) ELSE st

RECURSIVE ScanLoop(_, _)
\* while i < length: ...; return "".join(result)
ScanLoop(s, st) == IF st.i < Len(s) THEN ScanLoop(s, Iterate8(LAMBDA t : ScanStep(s, t), st)) ELSE st.result

\* The fast path: none of the three words occurs in the payload
FastPath(p) == ~Contains(p, <<"u","n","d","e","f","i","n","e","d">>) /\ ~Contains(p, <<"I","n","f","i","n","i","t","y">>) /\ ~Contains(p, <<"N","a","N">>)

\* _normalise_json_payload(payload)
normalise_json_payload(p) == IF FastPath(p) THEN p ELSE ScanLoop(RegexPass(p), ScanInit)

\* ------------------------------------------------------------------ values

NoneV == [t |-> "None", s |-> <<>>, keys |-> <<>>, kids |-> <<>>]

StrV(cs) == [t |-> "str", s |-> cs, keys |-> <<>>, kids |-> <<>>]

\* An int or a float, kept as its literal text
NumV(cs) == [t |-> "num", s |-> cs, keys |-> <<>>, kids |-> <<>>]

BoolV(b) == [t |-> "bool", s |-> IF b THEN <<"t","r","u","e">> ELSE <<"f","a","l","s","e">>, keys |-> <<>>, kids |-> <<>>]

ListV(items) == [t |-> "list", s |-> <<>>, keys |-> <<>>, kids |-> items]

DictV(ks, vs) == [t |-> "dict", s |-> <<>>, keys |-> ks, kids |-> vs]

\* isinstance(v, dict), isinstance(v, list), isinstance(v, str)
IsDict(v) == v.t = "dict"

IsList(v) == v.t = "list"

IsStr(v) == v.t = "str"

\* key in d
HasKey(d, key) == \E k \in 1..Len(d.keys) : d.keys[k] = key

\* d.get(key): None when the key is absent
Get(d, key) == IF HasKey(d, key) THEN d.kids[CHOOSE k \in 1..Len(d.keys) : d.keys[k] = key] ELSE NoneV

\* d[key] = v on a dict under construction: a repeated key keeps its place and takes the new value
DictPut(d, key, v) ==
    IF HasKey(d, key)
    THEN [d EXCEPT !.kids[CHOOSE k \in 1..Len(d.keys) : d.keys[k] = key] = v]
    ELSE [d EXCEPT !.keys = Append(@, key), !.kids = Append(@, v)]

\* bool(v) for the values the extractor tests: None and "" are falsy
Truthy(v) == ~(v.t = "None" \/ (v.t = "str" /\ v.s = <<>>))

\* ------------------------------------------------------------------ json.loads

\* The whitespace json skips between tokens
JsonWs == {" ", "\t", "\n", "\r"}

HEXDIGITS == <<"0","1","2","3","4","5","6","7","8","9","a","b","c","d","e","f","A","B","C","D","E","F">>

\* chr(int(h, 16)) for the four hex digits h; a code point the model's alphabet does not hold is "?"
Chr(h) ==
    LET l == Lower(h)
    IN IF l = <<"0","0","2","f">> THEN "/"
       ELSE IF l = <<"0","0","5","c">> THEN "\\"
       ELSE IF l = <<"0","0","2","2">> THEN "\""
       ELSE IF l = <<"0","0","3","a">> THEN ":"
       ELSE IF l = <<"0","0","2","e">> THEN "."
       ELSE IF l = <<"0","0","6","1">> THEN "a"
       ELSE "?"

IsHex4(s, i) == i + 4 <= Len(s) /\ \A k \in 1..4 : s[i + k] \in Range(HEXDIGITS)

SkipJsonWs(s, i) == RunEnd(s, i, JsonWs)

Fail == [ok |-> FALSE, val |-> NoneV, pos |-> 0]

Ok(v, p) == [ok |-> TRUE, val |-> v, pos |-> p]

\* The character a backslash escape stands for, "" when the escape is invalid (\b is kept as \f:
\* both are control characters)
Unescape(c) ==
    IF c \in {"\"", "\\", "/"} THEN c
    ELSE IF c = "n" THEN "\n"
    ELSE IF c = "t" THEN "\t"
    ELSE IF c = "r" THEN "\r"
    ELSE IF c \in {"f", "b"} THEN "\f"
    ELSE ""

\* py_scanstring (strict) at the character c = s[i]: the string ends, goes on, or is invalid
StringChar(s, st, c) ==
    IF c = "\"" THEN [st EXCEPT !.status = "ok", !.i = @ + 1]
    ELSE IF c \in {"\n", "\t", "\r", "\f"} THEN [st EXCEPT !.status = "fail"]
    ELSE IF c # "\\" THEN [st EXCEPT !.acc = Append(@, c), !.i = @ + 1]
    ELSE IF st.i + 1 >= Len(s) THEN [st EXCEPT !.status = "fail"]
    ELSE IF s[st.i + 2] = "u"
    THEN (IF IsHex4(s, st.i + 2)
          THEN [st EXCEPT !.acc = Append(@, Chr(SubSeq(s, st.i + 3, st.i + 6))), !.i = @ + 6]
          ELSE [st EXCEPT !.status = "fail"])
    ELSE IF Unescape(s[st.i + 2]) = "" THEN [st EXCEPT !.status = "fail"]
    ELSE [st EXCEPT !.acc = Append(@, Unescape(s[st.i + 2])), !.i = @ + 2]

\* One character of the string, none once it has ended
StringStep(s, st) ==
    IF st.status # "run" THEN st
    ELSE IF st.i >= Len(s) THEN [st EXCEPT !.status = "fail"]
    ELSE StringChar(s, st, s[st.i + 1])

RECURSIVE StringLoop(_, _)
StringLoop(s, st) == IF st.status # "run" THEN st ELSE StringLoop(s, Iterate8(LAMBDA t : StringStep(s, t), st))

StringResult(st) == IF st.status = "ok" THEN [ok |-> TRUE, val |-> StrV(st.acc), pos |-> st.i] ELSE Fail

\* py_scanstring(s, i): the string whose opening quote ends at index i
ScanString(s, i) == StringResult(StringLoop(s, [i |-> i, acc |-> <<>>, status |-> "run"]))

\* The index after the run of digits starting at i
DigitsEnd(s, i) == RunEnd(s, i, Range(DIGITS))

\* NUMBER_RE, r"(-?(?:0|[1-9]\d*))(\.\d+)?([eE][-+]?\d+)?", matched at i: the index after the match, -1 when none
NumberEnd(s, i) ==
    LET d == IF i < Len(s) /\ s[i + 1] = "-" THEN i + 1 ELSE i
        e == IF d < Len(s) /\ s[d + 1] = "0" THEN d + 1 ELSE DigitsEnd(s, d)
        f == IF e < Len(s) /\ s[e + 1] = "." /\ DigitsEnd(s, e + 1) > e + 1 THEN DigitsEnd(s, e + 1) ELSE e
        g == IF f + 1 < Len(s) /\ s[f + 2] \in {"+", "-"} THEN f + 2 ELSE f + 1
    IN IF e = d THEN -1
       ELSE IF f < Len(s) /\ s[f + 1] \in {"e", "E"} /\ DigitsEnd(s, g) > g THEN DigitsEnd(s, g)
       ELSE f

\* One of the five JavaScript-only literals, read as a value by the grammar of the embedded state
JsTokenV == [t |-> "jstoken", s |-> <<>>, keys |-> <<>>, kids |-> <<>>]

RECURSIVE ScanOnce(_, _, _), ScanObject(_, _, _, _), ObjectKey(_, _, _, _), ObjectColon(_, _, _, _, _), ObjectValue(_, _, _, _, _), ObjectNext(_, _, _, _), ScanArray(_, _, _, _), ArrayValue(_, _, _, _), ArrayNext(_, _, _, _)
\* scan_once(s, i).  js = FALSE is json.loads (which reads NaN, Infinity and -Infinity as floats);
\* js = TRUE is the grammar of the embedded state, where the five JavaScript-only literals are values.
ScanOnce(s, i, js) ==
    IF i >= Len(s) THEN Fail
    ELSE IF s[i + 1] = "\"" THEN ScanString(s, i + 1)
    ELSE IF s[i + 1] = "{" THEN ScanObject(s, SkipJsonWs(s, i + 1), DictV(<<>>, <<>>), js)
    ELSE IF s[i + 1] = "[" THEN ScanArray(s, SkipJsonWs(s, i + 1), <<>>, js)
    ELSE IF StartsWith(s, <<"n","u","l","l">>, i) THEN Ok(NoneV, i + 4)
    ELSE IF StartsWith(s, <<"t","r","u","e">>, i) THEN Ok(BoolV(TRUE), i + 4)
    ELSE IF StartsWith(s, <<"f","a","l","s","e">>, i) THEN Ok(BoolV(FALSE), i + 5)
    ELSE IF NumberEnd(s, i) # -1 THEN Ok(NumV(SubSeq(s, i + 1, NumberEnd(s, i))), NumberEnd(s, i))
    ELSE IF StartsWith(s, <<"N","a","N">>, i) THEN Ok(IF js THEN JsTokenV ELSE NumV(<<"N","a","N">>), i + 3)
    ELSE IF StartsWith(s, <<"I","n","f","i","n","i","t","y">>, i) THEN Ok(IF js THEN JsTokenV ELSE NumV(<<"I","n","f","i","n","i","t","y">>), i + 8)
    ELSE IF StartsWith(s, <<"-","I","n","f","i","n","i","t","y">>, i) THEN Ok(IF js THEN JsTokenV ELSE NumV(<<"-","I","n","f","i","n","i","t","y">>), i + 9)
    ELSE IF js /\ StartsWith(s, <<"+","I","n","f","i","n","i","t","y">>, i) THEN Ok(JsTokenV, i + 9)
    ELSE IF js /\ StartsWith(s, <<"u","n","d","e","f","i","n","e","d">>, i) THEN Ok(JsTokenV, i + 9)
    ELSE Fail

\* JSONObject: i is the index of the first non-blank character after "{" or after ","
ScanObject(s, i, d, js) ==
    IF i >= Len(s) THEN Fail
    ELSE IF s[i + 1] = "}" /\ Len(d.keys) = 0 THEN Ok(d, i + 1)
    ELSE IF s[i + 1] # "\"" THEN Fail
    ELSE ObjectKey(s, d, ScanString(s, i + 1), js)

\* ... the key k has been read: blanks, then ":"
ObjectKey(s, d, k, js) == IF ~k.ok THEN Fail ELSE ObjectColon(s, d, k.val.s, SkipJsonWs(s, k.pos), js)

\* ... c is the index where the ":" must be: blanks, then the value
ObjectColon(s, d, key, c, js) ==
    IF ~(c < Len(s) /\ s[c + 1] = ":") THEN Fail
    ELSE ObjectValue(s, d, key, ScanOnce(s, SkipJsonWs(s, c + 1), js), js)

\* ... the value v has been read: the pair is stored, a repeated key taking the later value
ObjectValue(s, d, key, v, js) ==
    IF ~v.ok THEN Fail ELSE ObjectNext(s, DictPut(d, key, v.val), SkipJsonWs(s, v.pos), js)

\* ... e is the index after the pair: "}" ends the object, "," must be followed by another key
ObjectNext(s, d, e, js) ==
    IF e >= Len(s) THEN Fail
    ELSE IF s[e + 1] = "}" THEN Ok(d, e + 1)
    ELSE IF s[e + 1] # "," THEN Fail
    ELSE IF SkipJsonWs(s, e + 1) < Len(s) /\ s[SkipJsonWs(s, e + 1) + 1] = "\"" THEN ScanObject(s, SkipJsonWs(s, e + 1), d, js)
    ELSE Fail

\* JSONArray: i is the index of the first non-blank character after "[" or after ","
ScanArray(s, i, items, js) ==
    IF i >= Len(s) THEN Fail
    ELSE IF s[i + 1] = "]" /\ Len(items) = 0 THEN Ok(ListV(items), i + 1)
    ELSE ArrayValue(s, items, ScanOnce(s, i, js), js)

\* ... the element v has been read
ArrayValue(s, items, v, js) ==
    IF ~v.ok THEN Fail ELSE ArrayNext(s, Append(items, v.val), SkipJsonWs(s, v.pos), js)

\* ... e is the index after the element: "]" ends the array, "," is followed by another element
ArrayNext(s, items, e, js) ==
    IF e >= Len(s) THEN Fail
    ELSE IF s[e + 1] = "]" THEN Ok(ListV(items), e + 1)
    ELSE IF s[e + 1] # "," THEN Fail
    ELSE ScanArray(s, SkipJsonWs(s, e + 1), items, js)

\* The value read by scan_once from the first non-blank character, if nothing but blanks follows it
DecodeEnd(s, v) == IF v.ok /\ SkipJsonWs(s, v.pos) = Len(s) THEN v ELSE Fail

\* JSONDecoder.decode: one value between optional whitespace, and nothing after it
Decode(s, js) == DecodeEnd(s, ScanOnce(s, SkipJsonWs(s, 0), js))

\* json.loads(s): ok = FALSE is JSONDecodeError
json_loads(s) == Decode(s, FALSE)

\* ------------------------------------------------------------------ note locator

\* The noteDetailMap branch: the nested "note" dict of every value that has one
DetailMapNotes(note_detail_map) ==
    LET hit == SelectSeq(note_detail_map.kids, LAMBDA value : IsDict(value) /\ IsDict(Get(value, <<"n","o","t","e">>)))
    IN [k \in 1..Len(hit) |-> Get(hit[k], <<"n","o","t","e">>)]

\* for item in items: if isinstance(item, dict): yield item
DictItems(items) == SelectSeq(items.kids, IsDict)

\* The branches under root["note"] with the feed tried before the noteDetailMap;
\* DetailMapTakesPrecedence tells it from NoteRootBranches
NoteRootFeedFirst(note_root) ==
    IF IsDict(Get(note_root, <<"f","e","e","d">>)) /\ IsList(Get(Get(note_root, <<"f","e","e","d">>), <<"i","t","e","m","s">>))
    THEN [returned |-> TRUE, yielded |-> DictItems(Get(Get(note_root, <<"f","e","e","d">>), <<"i","t","e","m","s">>))]
    ELSE IF IsDict(Get(note_root, <<"n","o","t","e","D","e","t","a","i","l","M","a","p">>))
    THEN [returned |-> TRUE, yielded |-> DetailMapNotes(Get(note_root, <<"n","o","t","e","D","e","t","a","i","l","M","a","p">>))]
    ELSE [returned |-> FALSE, yielded |-> <<>>]

\* The branches under root["note"]: returned says whether the generator returned in one of them
NoteRootBranches(note_root) ==
    IF IsDict(Get(note_root, <<"n","o","t","e","D","e","t","a","i","l","M","a","p">>))
    THEN [returned |-> TRUE, yielded |-> DetailMapNotes(Get(note_root, <<"n","o","t","e","D","e","t","a","i","l","M","a","p">>))]
    ELSE IF IsDict(Get(note_root, <<"n","o","t","e">>))
    THEN [returned |-> TRUE, yielded |-> <<Get(note_root, <<"n","o","t","e">>)>>]
    ELSE IF IsDict(Get(note_root, <<"f","e","e","d">>))
    THEN [returned |-> TRUE,
          yielded |-> IF IsList(Get(Get(note_root, <<"f","e","e","d">>), <<"i","t","e","m","s">>))
                      THEN DictItems(Get(Get(note_root, <<"f","e","e","d">>), <<"i","t","e","m","s">>))
                      ELSE <<>>]
    ELSE IF HasKey(note_root, <<"i","m","a","g","e","L","i","s","t">>) \/ HasKey(note_root, <<"v","i","d","e","o">>)
    THEN [returned |-> TRUE, yielded |-> <<note_root>>]
    ELSE [returned |-> FALSE, yielded |-> <<>>]

\* The scan of the root's own values
TopLevelScan(r) ==
    SelectSeq(r.kids, LAMBDA value :
        IsDict(value) /\ (HasKey(value, <<"n","o","t","e">>) \/ HasKey(value, <<"i","m","a","g","e","L","i","s","t">>)
                          \/ HasKey(value, <<"i","m","a","g","e","s">>) \/ HasKey(value, <<"v","i","d","e","o">>)))

\* The branches after root["note"]: root["feed"]["items"], else the scan of the root's values
FeedRootBranches(r) ==
    IF IsDict(Get(r, <<"f","e","e","d">>)) /\ IsList(Get(Get(r, <<"f","e","e","d">>), <<"i","t","e","m","s">>))
    THEN DictItems(Get(Get(r, <<"f","e","e","d">>), <<"i","t","e","m","s">>))
    ELSE TopLevelScan(r)

\* list(self._extract_note_objects(root))
extract_note_objects(r) ==
    IF ~IsDict(r) THEN <<>>
    ELSE IF IsDict(Get(r, <<"n","o","t","e">>)) /\ NoteRootBranches(Get(r, <<"n","o","t","e">>)).returned
    THEN NoteRootBranches(Get(r, <<"n","o","t","e">>)).yielded
    ELSE FeedRootBranches(r)

\* ------------------------------------------------------------------ URL rewrite and predicate

\* re.split(r"[!?]", token)[0]
BeforeSuffix(token) ==
    LET at == {k \in 1..Len(token) : token[k] \in {"!", "?"}}
    IN IF at = {} THEN token ELSE SubSeq(token, 1, Min(at) - 1)

\* parts = url.split("/") and the statements after it
Rebuild(u, parts) ==
    IF Len(parts) <= 5 THEN u
    ELSE StrV(<<"h","t","t","p","s",":","/","/","c","i",".","x","i","a","o","h","o","n","g","s","h","u",".","c","o","m","/">> \o BeforeSuffix(Join(SubSeq(parts, 6, Len(parts)), "/")))

\* _transform_xhs_cdn_url(url)
transform_xhs_cdn_url(u) ==
    IF ~IsStr(u) THEN NoneV
    ELSE IF ~Contains(u.s, <<"x","h","s","c","d","n",".","c","o","m">>) THEN u
    ELSE IF Contains(Lower(u.s), <<"v","i","d","e","o">>) \/ Contains(Lower(u.s), <<"s","n","s","-","v","i","d","e","o">>) THEN u
    ELSE Rebuild(u, Split(u.s, "/"))

\* The substrings _is_valid_media_url looks for
MediaMarks == {<<".","j","p","g">>, <<".","j","p","e","g">>, <<".","p","n","g">>, <<".","g","i","f">>, <<".","m","p","4">>, <<".","w","e","b","m">>, <<"x","h","s","c","d","n",".","c","o","m">>, <<"x","i","a","o","h","o","n","g","s","h","u",".","c","o","m">>}

\* _is_valid_media_url(url)
is_valid_media_url(u) == IsStr(u) /\ \E ext \in MediaMarks : Contains(Lower(u.s), ext)

\* ------------------------------------------------------------------ media extractor

\* MediaItem(type=..., url=..., image_url=..., video_url=...)
MediaItem(type, u, image_url, video_url) == [type |-> type, url |-> u, image_url |-> image_url, video_url |-> video_url]

RECURSIVE StreamUrls(_)
\* The loop over h264 of _extract_video_streams
StreamUrls(entries) ==
    IF Len(entries) = 0 THEN <<>>
    ELSE LET entry == Head(entries)
             here == IF IsStr(entry) /\ StartsWith(entry.s, <<"h","t","t","p">>, 0) THEN <<entry>>
                     ELSE IF IsStr(entry) THEN <<>>
                     ELSE IF IsDict(entry)
                     THEN (IF IsStr(Get(entry, <<"u","r","l">>)) THEN <<Get(entry, <<"u","r","l">>)>> ELSE <<>>)
                          \o (IF IsStr(Get(entry, <<"m","a","s","t","e","r","U","r","l">>)) THEN <<Get(entry, <<"m","a","s","t","e","r","U","r","l">>)>> ELSE <<>>)
                     ELSE <<>>
         IN here \o StreamUrls(Tail(entries))

\* _extract_video_streams(video_obj)
extract_video_streams(video_obj) ==
    LET media == Get(video_obj, <<"m","e","d","i","a">>)
        stream == IF IsDict(media) THEN Get(media, <<"s","t","r","e","a","m">>) ELSE NoneV
        h264 == IF IsDict(stream) THEN Get(stream, <<"h","2","6","4">>) ELSE NoneV
    IN IF IsList(h264) THEN StreamUrls(h264.kids) ELSE <<>>

\* _extract_image_url(image_obj)
extract_image_url(image_obj) ==
    IF IsStr(Get(image_obj, <<"u","r","l","D","e","f","a","u","l","t">>)) THEN Get(image_obj, <<"u","r","l","D","e","f","a","u","l","t">>)
    ELSE IF IsStr(Get(image_obj, <<"u","r","l">>)) THEN Get(image_obj, <<"u","r","l">>)
    ELSE IF IsStr(Get(image_obj, <<"t","r","a","c","e","I","d">>)) THEN StrV(<<"h","t","t","p","s",":","/","/","s","n","s","-","i","m","g","-","q","c",".","x","h","s","c","d","n",".","c","o","m","/">> \o Get(image_obj, <<"t","r","a","c","e","I","d">>).s)
    ELSE LET info_list == Get(image_obj, <<"i","n","f","o","L","i","s","t">>)
             hit == IF IsList(info_list)
                    THEN SelectSeq(info_list.kids, LAMBDA info : IsDict(info) /\ IsStr(Get(info, <<"u","r","l">>)))
                    ELSE <<>>
         IN IF Len(hit) > 0 THEN Get(hit[1], <<"u","r","l">>) ELSE NoneV

\* _extract_live_photo_video(image_obj)
extract_live_photo_video(image_obj) ==
    LET stream == Get(image_obj, <<"s","t","r","e","a","m">>)
        h264 == IF IsDict(stream) THEN Get(stream, <<"h","2","6","4">>) ELSE NoneV
        first == IF IsList(h264) /\ Len(h264.kids) > 0 THEN h264.kids[1] ELSE NoneV
    IN IF ~IsDict(first) THEN NoneV
       ELSE IF IsStr(Get(first, <<"m","a","s","t","e","r","U","r","l">>)) THEN Get(first, <<"m","a","s","t","e","r","U","r","l">>)
       ELSE IF IsStr(Get(first, <<"u","r","l">>)) THEN Get(first, <<"u","r","l">>)
       ELSE NoneV

\* The video rule: what note["video"] adds to media_items (raw_urls takes each item's url)
VideoItems(n) ==
    LET video == Get(n, <<"v","i","d","e","o">>)
        consumer == IF IsDict(video) THEN Get(video, <<"c","o","n","s","u","m","e","r">>) ELSE NoneV
    IN IF ~IsDict(video) THEN <<>>
       ELSE IF IsDict(consumer) /\ IsStr(Get(consumer, <<"o","r","i","g","i","n","V","i","d","e","o","K","e","y">>))
       THEN <<MediaItem("video", StrV(<<"h","t","t","p","s",":","/","/","s","n","s","-","v","i","d","e","o","-","b","d",".","x","h","s","c","d","n",".","c","o","m","/">> \o Get(consumer, <<"o","r","i","g","i","n","V","i","d","e","o","K","e","y">>).s), NoneV, NoneV)>>
       ELSE LET media_urls == extract_video_streams(video)
            IN [k \in 1..Len(media_urls) |-> MediaItem("video", media_urls[k], NoneV, NoneV)]

\* image_list: the kids of the list chosen, <<>> when there is none (an empty list is skipped alike)
ImageList(n) ==
    IF IsList(Get(n, <<"i","m","a","g","e","L","i","s","t">>)) THEN Get(n, <<"i","m","a","g","e","L","i","s","t">>).kids
    ELSE IF IsList(Get(n, <<"i","m","a","g","e","s">>)) THEN Get(n, <<"i","m","a","g","e","s">>).kids
    ELSE IF IsDict(Get(n, <<"i","m","a","g","e">>)) THEN <<Get(n, <<"i","m","a","g","e">>)>>
    ELSE <<>>

NoItems == [media |-> <<>>, raw |-> <<>>]

\* A live photo emitted as an image item and a video item; LivePhotoIsOneItem tells it from LivePhoto
SeparateItems(transformed_image, transformed_video) ==
    [media |-> <<MediaItem("image", transformed_image, NoneV, NoneV), MediaItem("video", transformed_video, NoneV, NoneV)>>,
     raw |-> <<transformed_image, transformed_video>>]

\* A live photo whose video is left out of raw_urls; RawUrlsFlattenMedia tells it from LivePhoto
LivePhotoImageRaw(transformed_image, transformed_video) ==
    [media |-> <<MediaItem("live_photo", NoneV, transformed_image, transformed_video)>>,
     raw |-> <<transformed_image>>]

\* The live photo branch: one item that holds both URLs, and raw_urls.extend(filter(None, [...]))
LivePhoto(transformed_image, transformed_video) ==
    [media |-> <<MediaItem("live_photo", NoneV, transformed_image, transformed_video)>>,
     raw |-> SelectSeq(<<transformed_image, transformed_video>>, Truthy)]

\* The plain image branch
ImageOnly(transformed_image) ==
    [media |-> <<MediaItem("image", transformed_image, NoneV, NoneV)>>, raw |-> <<transformed_image>>]

\* if image_url: ...
ImageItems(image_url, live_photo_video_url) ==
    IF ~Truthy(image_url) THEN NoItems
    ELSE IF Truthy(live_photo_video_url)
    THEN LivePhoto(transform_xhs_cdn_url(image_url), transform_xhs_cdn_url(live_photo_video_url))
    ELSE ImageOnly(transform_xhs_cdn_url(image_url))

\* The body of the loop over image_list: what one image adds to media_items and to raw_urls
ImageStep(image) ==
    IF ~IsDict(image) THEN NoItems
    ELSE ImageItems(extract_image_url(image), extract_live_photo_video(image))

\* media_items and raw_urls after one more image
ImageAdd(here, rest) == [media |-> here.media \o rest.media, raw |-> here.raw \o rest.raw]

RECURSIVE ImageLoop(_)
\* for image in image_list: ...
ImageLoop(images) ==
    IF Len(images) = 0 THEN NoItems
    ELSE ImageAdd(ImageStep(Head(images)), ImageLoop(Tail(images)))

\* The urls of a list of items of type video or raw
ItemUrls(items) == [k \in 1..Len(items) |-> items[k].url]

\* The scalar fallback: every str value of the note that passes the predicate
ScalarHits(hit) == [k \in 1..Len(hit) |-> MediaItem("raw", hit[k], NoneV, NoneV)]

ScalarItems(n) == ScalarHits(SelectSeq(n.kids, is_valid_media_url))

ScalarResult(items) == [media |-> items, raw |-> ItemUrls(items)]

\* if not media_items: ...; return media_items, raw_urls
MediaResult(n, video, images) ==
    IF Len(video) + Len(images.media) > 0
    THEN [media |-> video \o images.media, raw |-> ItemUrls(video) \o images.raw]
    ELSE ScalarResult(ScalarItems(n))

\* _extract_media_from_note(note): (media_items, raw_urls)
extract_media_from_note(n) == MediaResult(n, VideoItems(n), ImageLoop(ImageList(n)))
\* ------------------------------------------------------------------ fallback scanner

\* text.replace("\\/", "/") at index st.i
SlashStep(s, st) ==
    IF st.i >= Len(s) THEN st
    ELSE IF StartsWith(s, <<"\\","/">>, st.i) THEN [i |-> st.i + 2, acc |-> Append(st.acc, "/")]
    ELSE [i |-> st.i + 1, acc |-> Append(st.acc, s[st.i + 1])]

RECURSIVE SlashLoop(_, _)
SlashLoop(s, st) == IF st.i >= Len(s) THEN st.acc ELSE SlashLoop(s, Iterate8(LAMBDA t : SlashStep(s, t), st))

ReplaceEscapedSlash(s) == SlashLoop(s, [i |-> 0, acc |-> <<>>])

\* UNICODE_ESCAPE_PATTERN.sub(lambda match: chr(int(match.group(1), 16)), text) at index st.i
UnicodeStep(s, st) ==
    IF st.i >= Len(s) THEN st
    ELSE IF StartsWith(s, <<"\\","u">>, st.i) /\ IsHex4(s, st.i + 2)
    THEN [i |-> st.i + 6, acc |-> Append(st.acc, Chr(SubSeq(s, st.i + 3, st.i + 6)))]
    ELSE [i |-> st.i + 1, acc |-> Append(st.acc, s[st.i + 1])]

RECURSIVE UnicodeLoop(_, _)
UnicodeLoop(s, st) == IF st.i >= Len(s) THEN st.acc ELSE UnicodeLoop(s, Iterate8(LAMBDA t : UnicodeStep(s, t), st))

SubUnicodeEscape(s) == UnicodeLoop(s, [i |-> 0, acc |-> <<>>])

\* _decode_unicode_sequences(text)
decode_unicode_sequences(text) == SubUnicodeEscape(ReplaceEscapedSlash(text))

NoMatch == [ok |-> FALSE, group |-> <<>>, end |-> 0]

Quotes == {"'", "\""}

\* IMG_TAG_PATTERN, r"<img[^>]+src\\s*=\\s*['\"]([^'\"]+)['\"][^>]*>" with re.IGNORECASE.
\* The pattern is a raw string, so each \\ is a literal backslash and each s* a run of the letter s
\* (s or S).  Every repetition after "src" is followed by a character it cannot match, so it takes
\* its longest run and never backtracks.

\* ... [^>]* and ">" after the closing quote at index e
ImgClose(s, d, e, gt) == IF gt # -1 THEN [ok |-> TRUE, group |-> Slice(s, d + 1, e), end |-> gt + 1] ELSE NoMatch

\* ... ([^'\"]+) from index d + 1 to e, then the closing quote
ImgGroup(s, d, e) == IF e > d + 1 /\ e < Len(s) THEN ImgClose(s, d, e, Find(s, <<">">>, e + 1)) ELSE NoMatch

\* ... the opening quote at index d
ImgQuote(s, d) == IF d < Len(s) /\ s[d + 1] \in Quotes THEN ImgGroup(s, d, RunEndNot(s, d + 1, Quotes)) ELSE NoMatch

\* ... "=" and a backslash at index b, then s*
ImgEquals(s, b) == IF StartsWith(s, <<"=","\\">>, b) THEN ImgQuote(s, RunEnd(s, b + 2, {"s", "S"})) ELSE NoMatch

\* ... "src" and a backslash at index q, then s*
ImgTailAt(s, q) == IF StartsWithLower(s, <<"s","r","c","\\">>, q) THEN ImgEquals(s, RunEnd(s, q + 4, {"s", "S"})) ELSE NoMatch

\* [^>]+ is greedy: of the runs after which the rest matches, the longest
ImgLongest(s, runs) == IF runs = {} THEN NoMatch ELSE ImgTailAt(s, Max(runs))

\* IMG_TAG_PATTERN tried at index p
ImgMatchAt(s, p) ==
    IF StartsWithLower(s, <<"<","i","m","g">>, p)
    THEN ImgLongest(s, {q \in (p + 5)..RunEndNot(s, p + 4, {">"}) : ImgTailAt(s, q).ok})
    ELSE NoMatch

\* The extensions of MEDIA_URL_PATTERN, in the order of the alternation
MediaExtensions == <<<<"j","p","g">>, <<"j","p","e","g">>, <<"p","n","g">>, <<"g","i","f">>, <<"m","p","4">>, <<"a","v","i">>, <<"m","o","v">>, <<"w","e","b","m">>, <<"w","m","v">>, <<"f","4","v">>, <<"s","w","f">>, <<"m","p","g">>, <<"m","p","e","g">>, <<"a","s","f">>, <<"3","g","p">>, <<"3","g","2">>, <<"m","k","v">>, <<"w","e","b","p">>, <<"h","e","i","c">>, <<"h","e","i","f">>>>

\* [\w\-._~:/?#\[\]@!$&'()*+,;=%] (ASCII)
UrlChars == Range(UPPER) \cup Range(LOWER) \cup Range(DIGITS)
            \cup {"_", "-", ".", "~", ":", "/", "?", "#", "[", "]", "@", "!", "$", "&", "'", "(", ")", "*", "+", ",", ";", "=", "%"}

\* \.(?:jpg|...) tried at index q: the index after the first alternative that matches, -1 when none does
ExtensionHit(s, q, hit) == IF hit # {} THEN q + 1 + Len(MediaExtensions[Min(hit)]) ELSE -1

ExtensionEnd(s, q) ==
    IF q < Len(s) /\ s[q + 1] = "."
    THEN ExtensionHit(s, q, {k \in 1..Len(MediaExtensions) : StartsWithLower(s, MediaExtensions[k], q + 1)})
    ELSE -1

\* The class is greedy: of the runs after which an extension follows, the longest
MediaLongest(s, p, runs) ==
    IF runs = {} THEN NoMatch
    ELSE [ok |-> TRUE, group |-> Slice(s, p, ExtensionEnd(s, Max(runs))), end |-> ExtensionEnd(s, Max(runs))]

\* ... q0 is the index after "://"
MediaRuns(s, p, q0) == MediaLongest(s, p, {q \in (q0 + 1)..RunEnd(s, q0, UrlChars) : ExtensionEnd(s, q) # -1})

\* MEDIA_URL_PATTERN tried at index p
MediaMatchAt(s, p) ==
    IF StartsWithLower(s, <<"h","t","t","p","s",":","/","/">>, p) THEN MediaRuns(s, p, p + 8)
    ELSE IF StartsWithLower(s, <<"h","t","t","p",":","/","/">>, p) THEN MediaRuns(s, p, p + 7)
    ELSE NoMatch

RECURSIVE ImgFindIter(_, _), ImgFindFrom(_, _), ImgFindNext(_, _)
\* [match.group(1) for match in IMG_TAG_PATTERN.finditer(s)], from index p on
ImgFindIter(s, p) == ImgFindFrom(s, {i \in p..(Len(s) - 1) : ImgMatchAt(s, i).ok})

ImgFindFrom(s, at) == IF at = {} THEN <<>> ELSE ImgFindNext(s, ImgMatchAt(s, Min(at)))

ImgFindNext(s, m) == <<m.group>> \o ImgFindIter(s, m.end)

RECURSIVE MediaFindIter(_, _), MediaFindFrom(_, _), MediaFindNext(_, _)
\* [match.group(0) for match in MEDIA_URL_PATTERN.finditer(s)], from index p on
MediaFindIter(s, p) == MediaFindFrom(s, {i \in p..(Len(s) - 1) : MediaMatchAt(s, i).ok})

MediaFindFrom(s, at) == IF at = {} THEN <<>> ELSE MediaFindNext(s, MediaMatchAt(s, Min(at)))

MediaFindNext(s, m) == <<m.group>> \o MediaFindIter(s, m.end)

\* The first loop of _extract_urls_from_html: the img src values that pass the predicate
ImgUrls(normalised_html) == SelectSeq(ImgFindIter(normalised_html, 0), LAMBDA u : is_valid_media_url(StrV(u)))

RECURSIVE AppendNew(_, _)
\* The second loop: each bare URL that passes the predicate and is not yet in urls is appended
AppendNew(urls, found) ==
    IF Len(found) = 0 THEN urls
    ELSE IF is_valid_media_url(StrV(Head(found))) /\ Head(found) \notin Range(urls)
         THEN AppendNew(Append(urls, Head(found)), Tail(found))
         ELSE AppendNew(urls, Tail(found))

\* _extract_urls_from_html(html)
ScanUrls(normalised_html) == AppendNew(ImgUrls(normalised_html), MediaFindIter(normalised_html, 0))

extract_urls_from_html(h) == ScanUrls(decode_unicode_sequences(h))

RECURSIVE UniqueInOrder(_, _)
\* The loop that keeps the first occurrence of each URL: seen is the list kept so far
UniqueInOrder(urls, unique_fallback) ==
    IF Len(urls) = 0 THEN unique_fallback
    ELSE IF Head(urls) \in Range(unique_fallback) THEN UniqueInOrder(Tail(urls), unique_fallback)
    ELSE UniqueInOrder(Tail(urls), Append(unique_fallback, Head(urls)))

\* The list left as the scanner returned it; FallbackUniqueInOrder tells it from UniqueFallback
KeepAll(urls) == urls

\* "Ensure fallback URLs are unique and preserve order"
UniqueFallback(urls) == UniqueInOrder(urls, <<>>)

\* ------------------------------------------------------------------ _parse_post_details

\* NoteResult(metadata=..., media=..., raw_media_urls=...); the metadata, which no branch reads, is left out
NoteResult(media, raw_media_urls) == [media |-> media, raw_media_urls |-> raw_media_urls]

Marker == <<"w","i","n","d","o","w",".","_","_","I","N","I","T","I","A","L","_","S","T","A","T","E","_","_","=">>

\* if json_payload.endswith(";"): json_payload = json_payload[:-1]
DropSemicolon(stripped) == IF EndsWith(stripped, <<";">>) THEN SubSeq(stripped, 1, Len(stripped) - 1) ELSE stripped

\* The payload of the script: the text after the first "=" of script_content, stripped, less one trailing ";"
JsonPayload(script_content) ==
    DropSemicolon(Strip(Slice(script_content, Find(script_content, <<"=">>, 0) + 1, Len(script_content))))

\* if media_items or raw_urls: notes.append(NoteResult(...))
AppendNote(acc, got) ==
    IF Len(got.media) > 0 \/ Len(got.raw) > 0 THEN Append(acc, NoteResult(got.media, got.raw)) ELSE acc

\* ------------------------------------------------------------------ documents

\* The number of pieces an input document is made of
MaxHtmlPieces == 2

\* The pieces of the input documents: scripts with the embedded state (empty, malformed, two notes,
\* unclosed with a candidate that holds no media), a closing tag, bare media URLs, img tags whose src
\* is followed by a backslash (the only ones IMG_TAG_PATTERN matches), and an img tag as browsers
\* write it with escaped slashes
HtmlPieces == {
    <<"w","i","n","d","o","w",".","_","_","I","N","I","T","I","A","L","_","S","T","A","T","E","_","_","=","{","}","<","/","s","c","r","i","p","t",">">>,
    <<"w","i","n","d","o","w",".","_","_","I","N","I","T","I","A","L","_","S","T","A","T","E","_","_","=","{","x","}",";","<","/","s","c","r","i","p","t",">">>,
    <<"w","i","n","d","o","w",".","_","_","I","N","I","T","I","A","L","_","S","T","A","T","E","_","_","="," ","{","\"","a","\"",":","{","\"","v","i","d","e","o","\"",":","{","\"","c","o","n","s","u","m","e","r","\"",":","{","\"","o","r","i","g","i","n","V","i","d","e","o","K","e","y","\"",":","\"","k","\"","}","}","}",",","\"","b","\"",":","{","\"","i","m","a","g","e","s","\"",":","[","{","\"","u","r","l","\"",":","\"","h","t","t","p",":","/","/","i",".","p","n","g","\"","}","]","}",",","\"","c","\"",":","u","n","d","e","f","i","n","e","d","}",";","<","/","s","c","r","i","p","t",">">>,
    <<"w","i","n","d","o","w",".","_","_","I","N","I","T","I","A","L","_","S","T","A","T","E","_","_","=","{","\"","a","\"",":","{","\"","v","i","d","e","o","\"",":","1","}","}">>,
    <<"<","/","s","c","r","i","p","t",">">>,
    <<"h","t","t","p",":","/","/","a",".","j","p","g"," ">>,
    <<"<","i","m","g"," ","s","r","c","\\","=","\\","\"","h","t","t","p",":","/","/","b",".","p","n","g","\"",">">>,
    <<"<","i","m","g"," ","s","r","c","=","\"","h","t","t","p",":","\\","/","\\","/","a",".","j","p","g","\"",">">>,
    <<"h","t","t","p",":","/","/","c",".","w","e","b","p"," ">>,
    <<"<","I","M","G"," ","a","l","t","=","\"","x","\""," ","S","R","C","\\","s","s","=","\\","'","H","T","T","P",":","/","/","x","h","s","c","d","n",".","c","o","m","/","p","'",">","h","t","t","p",":","/","/","d",".","g","i","f"," ">> }

Documents == {Concat(ps) : ps \in SeqUpTo(HtmlPieces, MaxHtmlPieces)}

\* ------------------------------------------------------------------ payloads

\* The number of elements of a generated array or object
MaxElems == 1

\* The number of pieces of a generated malformed payload
MaxPayloadPieces == 2

\* The values of the generated payloads: the five JavaScript-only literals, JSON scalars, and strings
\* that hold the literals, quotes and escapes
LeafTexts == {
    <<"u","n","d","e","f","i","n","e","d">>, <<"N","a","N">>, <<"I","n","f","i","n","i","t","y">>, <<"+","I","n","f","i","n","i","t","y">>, <<"-","I","n","f","i","n","i","t","y">>, <<"n","u","l","l">>, <<"-","1",".","5">>,
    <<"\"","a","\"">>, <<"\"","N","a","N","\"">>, <<"\"","x",":"," ","N","a","N","\"">>, <<"\"","i","t","'","s","\"">>, <<"\"","q","\\","\"","u","n","d","e","f","i","n","e","d","\"">>, <<"\"","b","\\","\\","\"">>, <<"\"",":","-","I","n","f","i","n","i","t","y","'","\"">> }

KeyTexts == <<<<"\"","a","\"">>, <<"\"","N","a","N","\"">>, <<"\"","k","'","\"">>, <<"\"","d","\"">>>>

RECURSIVE JoinText(_, _)
\* sep.join(parts)
JoinText(parts, sep) ==
    IF Len(parts) = 0 THEN <<>>
    ELSE IF Len(parts) = 1 THEN parts[1]
    ELSE parts[1] \o sep \o JoinText(Tail(parts), sep)

ArrayText(elems, sep) == <<"[">> \o JoinText(elems, sep) \o <<"]">>

ObjectText(elems, colon) ==
    <<"{">> \o JoinText([k \in 1..Len(elems) |-> KeyTexts[k] \o colon \o elems[k]], <<",">>) \o <<"}">>

ArrayTexts == {ArrayText(e, <<",">>) : e \in SeqUpTo(LeafTexts, MaxElems)}

ObjectTexts == {ObjectText(e, c) : e \in SeqUpTo(LeafTexts, MaxElems), c \in {<<":">>, <<" ",":"," "," ">>}}

\* The payload of the parser's test, with the values a and b in place of its JavaScript-only literals
TestPayload(a, b) ==
    <<"{","\"","n","o","t","e","\"",":","{","\"","n","o","t","e","D","e","t","a","i","l","M","a","p","\"",":","{","\"","a","b","c","\"",":","{","\"","n","o","t","e","\"",":","{","\"","n","o","t","e","I","d","\"",":","\"","a","b","c","\"",",","\"","i","m","a","g","e","L","i","s","t","\"",":","[","{","\"","u","r","l","D","e","f","a","u","l","t","\"",":","\"","h","t","t","p","s",":","/","/","s","n","s","-","i","m","g","-","q","c",".","x","h","s","c","d","n",".","c","o","m","/","2","0","2","3","1","1","1","1","/","f","o","o","/","1","0","4","0","g","f","o","o","b","a","r","!","n","d","_","d","f","t","_","w","e","b","p","\"","}","]","}","}","}","}",",","\"","g","l","o","b","a","l","\"",":","{","\"","p","r","e","f","e","t","c","h","I","d","\"",":">> \o a \o <<",","\"","v","a","l","u","e","s","\"",":">> \o b \o <<"}","}">>

\* Payloads of the embedded-state grammar: scalars, arrays, objects, one level of nesting, and the
\* payload of the parser's test
GrammarPayloads ==
    LeafTexts \cup ArrayTexts \cup ObjectTexts
    \cup {<<"{","\"","g","l","o","b","a","l","\"",":","{","\"","p","r","e","f","e","t","c","h","I","d","\"",":">> \o a \o <<",","\"","v","a","l","u","e","s","\"",":">> \o ArrayText(<<b>>, <<" ",","," ">>) \o <<"}","}">> : a \in LeafTexts, b \in LeafTexts}
    \cup {<<"["," ">> \o ObjectText(<<a>>, <<":"," ">>) \o <<" ","]">> : a \in LeafTexts}
    \cup {TestPayload(<<"u","n","d","e","f","i","n","e","d">>, <<"[","u","n","d","e","f","i","n","e","d",",","+","I","n","f","i","n","i","t","y",",","-","I","n","f","i","n","i","t","y",",","N","a","N","]">>), TestPayload(<<"\"","x",":"," ","N","a","N","\"">>, <<"[","]">>)}

\* The pieces of the malformed payloads: quotes, a backslash, a colon, blanks, letters and literals
PayloadPieces == {<<"\"">>, <<"'">>, <<"\\">>, <<":">>, <<" ">>, <<"a">>, <<"N","a","N">>, <<"-","I","n","f","i","n","i","t","y">>, <<"u","n","d","e","f","i","n","e","d">>}

MalformedPayloads == {Concat(ps) : ps \in SeqUpTo(PayloadPieces, MaxPayloadPieces)}

Payloads == GrammarPayloads \cup MalformedPayloads

\* _build_html(payload) of the parser's test
build_html(p) == <<"<","h","t","m","l",">","<","s","c","r","i","p","t",">","w","i","n","d","o","w",".","_","_","I","N","I","T","I","A","L","_","S","T","A","T","E","_","_","=">> \o p \o <<"<","/","s","c","r","i","p","t",">","<","/","h","t","m","l",">">>

EmbeddedDocuments == {build_html(p) : p \in Payloads}

\* ------------------------------------------------------------------ roots

\* A key left out of a generated dict
AbsentV == [t |-> "absent", s |-> <<>>, keys |-> <<>>, kids |-> <<>>]

\* The dict of the keys ks whose value in vs is not AbsentV
MkDict(ks, vs) ==
    LET at == SelectSeq([k \in 1..Len(ks) |-> k], LAMBDA k : vs[k] # AbsentV)
    IN DictV([k \in 1..Len(at) |-> ks[at[k]]], [k \in 1..Len(at) |-> vs[at[k]]])

\* A note told from the others by its noteId
NoteV(id) == DictV(<<<<"n","o","t","e","I","d">>>>, <<StrV(<<id>>)>>)

EmptyDict == DictV(<<>>, <<>>)

DetailMaps == {
    AbsentV, StrV(<<"s">>), EmptyDict,
    DictV(<<<<"a">>>>, <<DictV(<<<<"n","o","t","e">>>>, <<NoteV("1")>>)>>),
    DictV(<<<<"a">>, <<"b">>, <<"c">>, <<"d">>>>,
          <<DictV(<<<<"n","o","t","e">>>>, <<NoteV("1")>>), StrV(<<"s">>), DictV(<<<<"n","o","t","e">>>>, <<StrV(<<"s">>)>>), DictV(<<<<"n","o","t","e">>>>, <<NoteV("2")>>)>>),
    DictV(<<<<"a">>>>, <<EmptyDict>>) }

Feeds(a, b) == {
    AbsentV, ListV(<<>>), EmptyDict,
    DictV(<<<<"i","t","e","m","s">>>>, <<StrV(<<"s">>)>>),
    DictV(<<<<"i","t","e","m","s">>>>, <<ListV(<<>>)>>),
    DictV(<<<<"i","t","e","m","s">>>>, <<ListV(<<NoteV(a), NoteV(b)>>)>>),
    DictV(<<<<"i","t","e","m","s">>>>, <<ListV(<<NoteV(a), StrV(<<"s">>), NoteV(b)>>)>>) }

NoteRoots ==
    {AbsentV, StrV(<<"s">>)}
    \cup {MkDict(<<<<"n","o","t","e","D","e","t","a","i","l","M","a","p">>, <<"n","o","t","e">>, <<"f","e","e","d">>, <<"i","m","a","g","e","L","i","s","t">>, <<"v","i","d","e","o">>>>, <<dm, nn, fd, il, vd>>) :
            dm \in DetailMaps, nn \in {AbsentV, StrV(<<"s">>), NoteV("3")}, fd \in Feeds("4", "5"),
            il \in {AbsentV, ListV(<<>>)}, vd \in {AbsentV, NoneV}}

OtherRoots == {
    AbsentV, StrV(<<"s">>),
    DictV(<<<<"i","m","a","g","e","s">>>>, <<ListV(<<>>)>>),
    DictV(<<<<"n","o","t","e">>>>, <<NoteV("8")>>),
    DictV(<<<<"k">>>>, <<NoneV>>) }

Roots ==
    {NoneV, ListV(<<>>)}
    \cup {MkDict(<<<<"n","o","t","e">>, <<"f","e","e","d">>, <<"x">>, <<"y">>>>, <<n, f, x, DictV(<<<<"v","i","d","e","o">>>>, <<NoneV>>)>>) :
            n \in NoteRoots, f \in Feeds("6", "7"), x \in OtherRoots}
    \cup {MkDict(<<<<"n","o","t","e">>, <<"f","e","e","d">>, <<"x">>>>, <<n, f, x>>) :
            n \in {AbsentV, StrV(<<"s">>), EmptyDict}, f \in Feeds("6", "7"), x \in OtherRoots}

\* ------------------------------------------------------------------ notes

\* The number of entries of a generated image list
MaxImages == 2

ImageUrlA == StrV(<<"h","t","t","p","s",":","/","/","s","n","s","-","i","m","g","-","q","c",".","x","h","s","c","d","n",".","c","o","m","/","2","0","2","3","1","1","1","1","/","f","o","o","/","1","0","4","0","g","f","o","o","b","a","r","!","n","d","_","d","f","t","_","w","e","b","p">>)

ImageUrlB == StrV(<<"h","t","t","p",":","/","/","x",".","c","o","m","/","b",".","j","p","g">>)

VideoUrlA == StrV(<<"h","t","t","p","s",":","/","/","s","n","s","-","v","i","d","e","o","-","b","d",".","x","h","s","c","d","n",".","c","o","m","/","s","t","r","e","a","m","/","1","/","v",".","m","p","4">>)

VideoUrlB == StrV(<<"h","t","t","p","s",":","/","/","s","n","s","-","i","m","g","-","b","d",".","x","h","s","c","d","n",".","c","o","m","/","a","/","b","/","c","/","l","i","v","e",".","m","o","v","?","s","i","g","n","=","1">>)

\* {"h264": entries} under "stream"
StreamV(entries) == DictV(<<<<"h","2","6","4">>>>, <<ListV(entries)>>)

\* The image entries: plain images, live photos by either key, empty and non-string values under the
\* first keys, an infoList, an entry with a video and no image, and an entry that is no dict
Images == {
    DictV(<<<<"u","r","l","D","e","f","a","u","l","t">>>>, <<ImageUrlA>>),
    DictV(<<<<"u","r","l">>, <<"s","t","r","e","a","m">>>>, <<ImageUrlB, StreamV(<<DictV(<<<<"m","a","s","t","e","r","U","r","l">>, <<"u","r","l">>>>, <<VideoUrlA, VideoUrlB>>)>>)>>),
    DictV(<<<<"t","r","a","c","e","I","d">>, <<"s","t","r","e","a","m">>>>, <<StrV(<<"2","0","2","3","/","f","o","o","/","t","1","?","x">>), StreamV(<<DictV(<<<<"u","r","l">>>>, <<VideoUrlB>>), StrV(<<"s">>)>>)>>),
    DictV(<<<<"u","r","l","D","e","f","a","u","l","t">>, <<"u","r","l">>, <<"s","t","r","e","a","m">>>>, <<StrV(<<>>), ImageUrlB, StreamV(<<DictV(<<<<"m","a","s","t","e","r","U","r","l">>>>, <<VideoUrlA>>)>>)>>),
    DictV(<<<<"i","n","f","o","L","i","s","t">>, <<"s","t","r","e","a","m">>>>,
          <<ListV(<<DictV(<<<<"x">>>>, <<NoneV>>), DictV(<<<<"u","r","l">>>>, <<ImageUrlB>>)>>),
            StreamV(<<DictV(<<<<"m","a","s","t","e","r","U","r","l">>, <<"u","r","l">>>>, <<StrV(<<>>), VideoUrlA>>)>>)>>),
    DictV(<<<<"u","r","l","D","e","f","a","u","l","t">>, <<"s","t","r","e","a","m">>>>, <<ImageUrlA, StreamV(<<>>)>>),
    DictV(<<<<"u","r","l","D","e","f","a","u","l","t">>, <<"u","r","l">>, <<"s","t","r","e","a","m">>>>, <<NumV(<<"5">>), ImageUrlA, StreamV(<<StrV(<<"s">>)>>)>>),
    DictV(<<<<"s","t","r","e","a","m">>>>, <<StreamV(<<DictV(<<<<"m","a","s","t","e","r","U","r","l">>>>, <<VideoUrlA>>)>>)>>),
    StrV(<<"h","t","t","p",":","/","/","x",".","c","o","m","/","b",".","j","p","g">>) }

Videos == {
    AbsentV, StrV(<<"h","t","t","p",":","/","/","x",".","c","o","m","/","v",".","m","p","4">>),
    DictV(<<<<"c","o","n","s","u","m","e","r">>>>, <<DictV(<<<<"o","r","i","g","i","n","V","i","d","e","o","K","e","y">>>>, <<StrV(<<"k","1">>)>>)>>),
    DictV(<<<<"c","o","n","s","u","m","e","r">>, <<"m","e","d","i","a">>>>,
          <<EmptyDict,
            DictV(<<<<"s","t","r","e","a","m">>>>, <<StreamV(<<StrV(<<"h","t","t","p",":","/","/","x",".","c","o","m","/","1",".","m","p","4">>), StrV(<<"f","t","p",":","/","/","x">>),
                                            DictV(<<<<"u","r","l">>, <<"m","a","s","t","e","r","U","r","l">>>>, <<VideoUrlA, VideoUrlB>>),
                                            DictV(<<<<"m","a","s","t","e","r","U","r","l">>>>, <<StrV(<<>>)>>), NumV(<<"5">>)>>)>>)>>),
    DictV(<<<<"m","e","d","i","a">>>>, <<StrV(<<"s">>)>>) }

\* The notes: a video, an image list under one of its three keys, and scalar fields
NoteInputs ==
    {MkDict(<<<<"d","e","s","c">>, <<"v","i","d","e","o">>, <<"i","m","a","g","e","L","i","s","t">>, <<"i","m","a","g","e","s">>, <<"c","o","v","e","r">>>>, <<d, v, il, im, c>>) :
        d \in {AbsentV, StrV(<<"s","e","e"," ","x","i","a","o","h","o","n","g","s","h","u",".","c","o","m">>)}, v \in Videos,
        il \in {AbsentV, StrV(<<"s">>)} \cup {ListV(e) : e \in SeqUpTo(Images, MaxImages)},
        im \in {AbsentV, ListV(<<DictV(<<<<"u","r","l">>>>, <<ImageUrlB>>)>>)},
        c \in {AbsentV, StrV(<<"h","t","t","p",":","/","/","x",".","c","o","m","/","C",".","J","P","G">>)}}
    \cup {MkDict(<<<<"v","i","d","e","o">>, <<"i","m","a","g","e","L","i","s","t">>, <<"i","m","a","g","e">>>>, <<v, il, i>>) :
        v \in Videos, il \in {AbsentV, NoneV}, i \in Images}

\* ------------------------------------------------------------------ URLs

\* The number of pieces after the head of a generated URL
MaxUrlPieces == 4

UrlHeads == {<<"h","t","t","p","s",":","/","/","s","n","s","-","i","m","g","-","q","c",".","x","h","s","c","d","n",".","c","o","m","/","a","/","b">>, <<"h","t","t","p",":","/","/","x",".","c","o","m","/","a","/","b">>, <<"h","t","t","p","s",":","/","/","s","n","s","-","V","I","D","E","O","-","b","d",".","x","h","s","c","d","n",".","c","o","m","/","a","/","b">>, <<"/","/","x","h","s","c","d","n",".","c","o","m">>, <<>>}

UrlPieces == {<<"/">>, <<"c">>, <<"x","h","s","c","d","n",".","c","o","m">>, <<"!">>, <<"?","d">>}

Urls == {h \o Concat(ps) : h \in UrlHeads, ps \in SeqUpTo(UrlPieces, MaxUrlPieces)}

\* ------------------------------------------------------------------ the specifications

\* The locals of _parse_post_details before its first statement
Idle ==
    /\ fault = FALSE
    /\ notes = <<>> /\ fallback_urls = <<>> /\ payload = <<>> /\ normalised = <<>>
    /\ media_items = <<>> /\ raw_urls = <<>> /\ note = NoneV
    /\ url = NoneV /\ once = NoneV /\ twice = NoneV
    /\ scan_state = ScanInit

\* _parse_post_details on a document
Init == Idle /\ pc = "start" /\ html \in Documents \cup EmbeddedDocuments /\ root = NoneV /\ note_objects = <<>> /\ index = 1

\* script_index = html.find(...) to json_payload = ...: the marker is absent (the else branch),
\* or no "</script>" follows it (nothing is done), or the payload is cut out
FindScript ==
    /\ pc = "start"
    /\ \E script_index \in {Find(html, Marker, 0)} :
        IF script_index = -1 THEN pc' = "scan" /\ payload' = payload
        ELSE \E end_index \in {Find(html, <<"<","/","s","c","r","i","p","t",">">>, script_index)} :
            IF end_index = -1 \/ Find(Slice(html, script_index, end_index), <<"=">>, 0) = -1
            THEN pc' = "unique" /\ payload' = payload
            ELSE pc' = "normalise" /\ payload' = JsonPayload(Slice(html, script_index, end_index))
    /\ UNCHANGED <<scan_state, html, fault, notes, fallback_urls, normalised, root, note_objects, index, mediaVars, canonVars>>

\* normalised_payload = self._normalise_json_payload(json_payload)
Normalise ==
    /\ pc = "normalise"
    /\ pc' = "load"
    /\ normalised' = normalise_json_payload(payload)
    /\ UNCHANGED <<scan_state, html, fault, notes, fallback_urls, payload, root, note_objects, index, mediaVars, canonVars>>

\* root = json.loads(normalised_payload), or except json.JSONDecodeError
Load ==
    /\ pc = "load"
    /\ \E loaded \in {json_loads(normalised)} :
        IF loaded.ok THEN pc' = "locate" /\ root' = loaded.val
        ELSE pc' = "scan" /\ root' = root
    /\ UNCHANGED <<scan_state, html, fault, notes, fallback_urls, payload, normalised, note_objects, index, mediaVars, canonVars>>

\* note_objects = list(self._extract_note_objects(root))
Locate ==
    /\ pc = "locate"
    /\ pc' = "loop"
    /\ note_objects' = extract_note_objects(root)
    /\ index' = 1
    /\ UNCHANGED <<scan_state, html, fault, notes, fallback_urls, payload, normalised, root, mediaVars, canonVars>>

\* One iteration of "for note in note_objects"
ProcessNote ==
    /\ pc = "loop"
    /\ index <= Len(note_objects)
    /\ note' = note_objects[index]
    /\ \E got \in {extract_media_from_note(note_objects[index])} :
        /\ media_items' = got.media
        /\ raw_urls' = got.raw
        /\ notes' = AppendNote(notes, got)
    /\ index' = index + 1
    /\ UNCHANGED <<scan_state, pc, html, fault, fallback_urls, payload, normalised, root, note_objects, canonVars>>

\* The loop is over
EndLoop ==
    /\ pc = "loop"
    /\ index > Len(note_objects)
    /\ pc' = "unique"
    /\ UNCHANGED <<scan_state, html, fault, notes, fallback_urls, payload, normalised, root, note_objects, index, mediaVars, canonVars>>

\* except Exception: an exception other than JSONDecodeError (a RecursionError of a call made near the
\* interpreter's recursion limit, a MemoryError) is raised while the notes are located or while a
\* candidate is processed; the notes appended so far stay in the list
Raise ==
    /\ pc = "locate" \/ (pc = "loop" /\ index <= Len(note_objects))
    /\ fault' = TRUE
    /\ pc' = "scan"
    /\ UNCHANGED <<scan_state, html, notes, fallback_urls, payload, normalised, root, note_objects, index, mediaVars, canonVars>>

\* fallback_urls.extend(self._extract_urls_from_html(html))
Scan ==
    /\ pc = "scan"
    /\ pc' = "unique"
    /\ fallback_urls' = fallback_urls \o extract_urls_from_html(html)
    /\ UNCHANGED <<scan_state, html, fault, notes, payload, normalised, root, note_objects, index, mediaVars, canonVars>>

\* "Ensure fallback URLs are unique and preserve order", and return notes, fallback_urls
Return ==
    /\ pc = "unique"
    /\ pc' = "done"
    /\ fallback_urls' = IF fallback_urls # <<>> THEN UniqueFallback(fallback_urls) ELSE fallback_urls
    /\ UNCHANGED <<scan_state, html, fault, notes, payload, normalised, root, note_objects, index, mediaVars, canonVars>>

Next == FindScript \/ Normalise \/ Load \/ Locate \/ ProcessNote \/ EndLoop \/ Raise \/ Scan \/ Return

Spec == Init /\ [][Next]_vars

\* _extract_note_objects on a parsed root
InitLocator == Idle /\ pc = "locate" /\ html = <<>> /\ root \in Roots /\ note_objects = <<>> /\ index = 1

NextLocator == Locate

SpecLocator == InitLocator /\ [][NextLocator]_vars

\* _extract_media_from_note on a note
InitMedia == Idle /\ pc = "loop" /\ html = <<>> /\ root = NoneV /\ note_objects \in {<<n>> : n \in NoteInputs} /\ index = 1

NextMedia == ProcessNote \/ EndLoop

SpecMedia == InitMedia /\ [][NextMedia]_vars

\* _transform_xhs_cdn_url on a URL, and on its own result
InitCanon ==
    /\ pc = "start" /\ fault = FALSE /\ html = <<>>
    /\ notes = <<>> /\ fallback_urls = <<>> /\ payload = <<>> /\ normalised = <<>>
    /\ root = NoneV /\ note_objects = <<>> /\ index = 1
    /\ media_items = <<>> /\ raw_urls = <<>> /\ note = NoneV
    /\ url \in {StrV(u) : u \in Urls} /\ once = NoneV /\ twice = NoneV
    /\ scan_state = ScanInit

Transform ==
    /\ pc = "start"
    /\ pc' = "once"
    /\ once' = transform_xhs_cdn_url(url)
    /\ UNCHANGED <<scan_state, html, fault, notes, fallback_urls, payload, normalised, root, note_objects, index, mediaVars, url, twice>>

TransformAgain ==
    /\ pc = "once"
    /\ pc' = "done"
    /\ twice' = transform_xhs_cdn_url(once)
    /\ UNCHANGED <<scan_state, html, fault, notes, fallback_urls, payload, normalised, root, note_objects, index, mediaVars, url, once>>

NextCanon == Transform \/ TransformAgain

SpecCanon == InitCanon /\ [][NextCanon]_vars

\* ------------------------------------------------------------------ properties: normaliser

RECURSIVE Shape(_)
\* A parsed tree with each JavaScript-only literal read as null; the text of strings and keys is left out
Shape(v) ==
    IF v.t = "jstoken" THEN NoneV
    ELSE IF v.t = "str" THEN StrV(<<>>)
    ELSE IF v.t = "list" THEN ListV([k \in 1..Len(v.kids) |-> Shape(v.kids[k])])
    ELSE IF v.t = "dict" THEN DictV([k \in 1..Len(v.keys) |-> <<>>], [k \in 1..Len(v.kids) |-> Shape(v.kids[k])])
    ELSE v

RECURSIVE HasToken(_)
\* Whether a JavaScript-only literal is a value of the tree
HasToken(v) == v.t = "jstoken" \/ \E k \in 1..Len(v.kids) : HasToken(v.kids[k])

\* C1: when the payload is JSON but for the five JavaScript-only literals standing as values outside
\* strings, and no call fails for lack of stack or memory, the normalised payload parses, the tree
\* is the payload's tree with null in place of each literal, and the fallback list returned is empty.
NormalisedPayloadParses ==
    (pc = "done" /\ ~fault /\ Decode(payload, TRUE).ok)
        => /\ json_loads(normalised).ok
           /\ Shape(json_loads(normalised).val) = Shape(Decode(payload, TRUE).val)
           /\ fallback_urls = <<>>

\* The parser's test: a payload that json.loads rejects as it stands, with a note in it
NormalisedPayloadParsesWitness ==
    /\ pc = "done" /\ ~fault
    /\ Decode(payload, TRUE).ok /\ HasToken(Decode(payload, TRUE).val)
    /\ ~json_loads(payload).ok
    /\ Len(notes) = 1 /\ fallback_urls = <<>>

\* The scan's string state at the character ch, and the characters seen in that state
LiteralChar(st, ch) ==
    IF st.in_string
    THEN [st EXCEPT !.lit = Append(@, ch),
                    !.escape = IF st.escape THEN FALSE ELSE ch = "\\",
                    !.in_string = ~(~st.escape /\ ch # "\\" /\ ch = st.quote_char),
                    !.i = @ + 1]
    ELSE IF ch \in {"\"", "'"}
    THEN [st EXCEPT !.in_string = TRUE, !.quote_char = ch, !.lit = Append(@, ch), !.i = @ + 1]
    ELSE [st EXCEPT !.i = @ + 1]

LiteralStep(s, st) == IF st.i < Len(s) THEN LiteralChar(st, s[st.i + 1]) ELSE st

RECURSIVE LiteralLoop(_, _)
LiteralLoop(s, st) == IF st.i < Len(s) THEN LiteralLoop(s, Iterate8(LAMBDA t : LiteralStep(s, t), st)) ELSE st.lit

\* The quoted string literals of s (either quote, a backslash escaping the next character), quotes
\* included, one after the other
Literals(s) == LiteralLoop(s, [i |-> 0, in_string |-> FALSE, escape |-> FALSE, quote_char |-> "", lit |-> <<>>])

\* C2: the normaliser copies every character of a quoted string literal unchanged, so the string
\* literals of its result are those of the payload.
StringLiteralsPreserved == pc = "done" => Literals(normalised) = Literals(payload)

\* ------------------------------------------------------------------ properties: note locator

\* root.key, None when root is no dict
Field(v, key) == IF IsDict(v) THEN Get(v, key) ELSE NoneV

\* The nested "note" dicts of the values of a noteDetailMap
NestedNotes(note_detail_map) ==
    SelectSeq([k \in 1..Len(note_detail_map.kids) |-> Field(note_detail_map.kids[k], <<"n","o","t","e">>)], IsDict)

\* root.note.noteDetailMap is a dict and root.note.feed.items is a list
DetailMapAndFeed(r) ==
    /\ IsDict(Field(Field(r, <<"n","o","t","e">>), <<"n","o","t","e","D","e","t","a","i","l","M","a","p">>))
    /\ IsList(Field(Field(Field(r, <<"n","o","t","e">>), <<"f","e","e","d">>), <<"i","t","e","m","s">>))

\* C3: when root.note.noteDetailMap is a dict and root.note.feed.items is a list, the notes located are
\* exactly the nested "note" dicts of the noteDetailMap's values, and no item of the feed is among them.
DetailMapTakesPrecedence ==
    (pc = "loop" /\ DetailMapAndFeed(root))
        => /\ note_objects = NestedNotes(Field(Field(root, <<"n","o","t","e">>), <<"n","o","t","e","D","e","t","a","i","l","M","a","p">>))
           /\ \A item \in Range(Field(Field(Field(root, <<"n","o","t","e">>), <<"f","e","e","d">>), <<"i","t","e","m","s">>).kids) : item \notin Range(note_objects)

\* A noteDetailMap that holds no note beside a feed whose items are all dicts: nothing is located
DetailMapTakesPrecedenceWitness ==
    /\ pc = "loop" /\ DetailMapAndFeed(root)
    /\ Len(Field(Field(Field(root, <<"n","o","t","e">>), <<"f","e","e","d">>), <<"i","t","e","m","s">>).kids) = 2
    /\ \A item \in Range(Field(Field(Field(root, <<"n","o","t","e">>), <<"f","e","e","d">>), <<"i","t","e","m","s">>).kids) : IsDict(item)
    /\ Len(Field(Field(root, <<"n","o","t","e">>), <<"n","o","t","e","D","e","t","a","i","l","M","a","p">>).kids) > 0
    /\ note_objects = <<>>

\* The Note Locator as its six branches read: the candidates of the first branch whose condition holds
NoteLocator(r) ==
    IF ~IsDict(r) THEN <<>>
    ELSE IF IsDict(Field(Field(r, <<"n","o","t","e">>), <<"n","o","t","e","D","e","t","a","i","l","M","a","p">>)) THEN NestedNotes(Field(Field(r, <<"n","o","t","e">>), <<"n","o","t","e","D","e","t","a","i","l","M","a","p">>))
    ELSE IF IsDict(Field(Field(r, <<"n","o","t","e">>), <<"n","o","t","e">>)) THEN <<Field(Field(r, <<"n","o","t","e">>), <<"n","o","t","e">>)>>
    ELSE IF IsList(Field(Field(Field(r, <<"n","o","t","e">>), <<"f","e","e","d">>), <<"i","t","e","m","s">>))
    THEN SelectSeq(Field(Field(Field(r, <<"n","o","t","e">>), <<"f","e","e","d">>), <<"i","t","e","m","s">>).kids, IsDict)
    ELSE IF IsDict(Field(r, <<"n","o","t","e">>)) /\ (HasKey(Field(r, <<"n","o","t","e">>), <<"i","m","a","g","e","L","i","s","t">>) \/ HasKey(Field(r, <<"n","o","t","e">>), <<"v","i","d","e","o">>))
    THEN <<Field(r, <<"n","o","t","e">>)>>
    ELSE IF IsList(Field(Field(r, <<"f","e","e","d">>), <<"i","t","e","m","s">>)) THEN SelectSeq(Field(Field(r, <<"f","e","e","d">>), <<"i","t","e","m","s">>).kids, IsDict)
    ELSE SelectSeq(r.kids, LAMBDA value :
            IsDict(value) /\ \E key \in {<<"n","o","t","e">>, <<"i","m","a","g","e","L","i","s","t">>, <<"i","m","a","g","e","s">>, <<"v","i","d","e","o">>} : HasKey(value, key))

\* C4: the notes located are the candidates of the first of the six branches whose condition holds,
\* a feed without a list of items leaving the later branches to apply.
LocatorTakesFirstBranch == pc = "loop" => note_objects = NoteLocator(root)

\* ------------------------------------------------------------------ properties: fallback

\* The elements of seq in the order of their first occurrence
FirstOccurrences(seq) ==
    LET first == {k \in 1..Len(seq) : \A j \in 1..(k - 1) : seq[j] # seq[k]}
    IN [n \in 1..Cardinality(first) |-> seq[CHOOSE k \in first : Cardinality({j \in first : j <= k}) = n]]

NoDuplicates(seq) == \A j, k \in 1..Len(seq) : seq[j] = seq[k] => j = k

\* The Fallback Scanner's deduplicated result on the document h
ScannerResult(h) == FirstOccurrences(extract_urls_from_html(h))

\* The marker and a "</script>" after it are in the document h: the payload is cut out and parsed
ScriptFound(h) == Find(h, Marker, 0) # -1 /\ Find(h, <<"<","/","s","c","r","i","p","t",">">>, Find(h, Marker, 0)) # -1

\* C5: when the marker is in the document and either no "</script>" follows it, or the payload parses
\* and no note with media comes of it, the fallback list returned is the scanner's deduplicated result.
ZeroNotesFallBack ==
    (pc = "done" /\ ~fault /\ Find(html, Marker, 0) # -1 /\ notes = <<>>
        /\ (~ScriptFound(html) \/ json_loads(normalised).ok))
        => fallback_urls = ScannerResult(html)

\* C6: when the normalised payload is not JSON, or another exception is raised while the notes are
\* located or their media extracted, no note is returned and the fallback list is the scanner's
\* deduplicated result.
FailureGivesOnlyFallback ==
    (pc = "done" /\ (fault \/ (ScriptFound(html) /\ ~json_loads(normalised).ok)))
        => notes = <<>> /\ fallback_urls = ScannerResult(html)

\* The part of C6 about a payload that is not JSON after normalisation, which holds
DecodeErrorGivesOnlyFallback ==
    (pc = "done" /\ ~fault /\ ScriptFound(html) /\ ~json_loads(normalised).ok)
        => notes = <<>> /\ fallback_urls = ScannerResult(html)

\* The img src values and then the bare media URLs of the document h, each list in the order of the
\* text and less the values that fail the media URL predicate
ScanResults(h) ==
    ImgUrls(decode_unicode_sequences(h))
    \o SelectSeq(MediaFindIter(decode_unicode_sequences(h), 0), LAMBDA u : is_valid_media_url(StrV(u)))

\* C7: the fallback list returned has no duplicates, and when it is not empty it holds the img src
\* values followed by the bare media URLs of the document, each value at its first occurrence.
FallbackUniqueInOrder ==
    pc = "done" => /\ NoDuplicates(fallback_urls)
                   /\ (fallback_urls # <<>> => fallback_urls = FirstOccurrences(ScanResults(html)))

\* A document whose scans find one URL more than once, and another URL
FallbackUniqueInOrderWitness ==
    /\ pc = "done"
    /\ Len(fallback_urls) >= 2
    /\ Len(ImgUrls(decode_unicode_sequences(html))) > Cardinality(Range(ImgUrls(decode_unicode_sequences(html))))
    /\ Len(ScanResults(html)) > Len(fallback_urls)

\* ------------------------------------------------------------------ properties: canonicaliser

\* C8: _transform_xhs_cdn_url applied to its own result returns that result.
TransformIdempotent == pc = "done" => twice = once

\* ------------------------------------------------------------------ properties: media extractor

\* The image dicts of the note's image list that have an image URL, in the order of the list
Resolvable(n) == SelectSeq(ImageList(n), LAMBDA image : IsDict(image) /\ Truthy(extract_image_url(image)))

\* The image has a video URL at stream.h264[0] as well
IsLive(image) == Truthy(extract_live_photo_video(image))

\* The items that images give rise to
ImageEntries(items) == SelectSeq(items, LAMBDA m : m.type \in {"image", "live_photo"})

\* The number of raw_urls entries before those of the k-th image: one per video of note["video"],
\* one per plain image and two per live photo
RawOffset(n, k) == Len(VideoItems(n)) + (k - 1) + Cardinality({j \in 1..(k - 1) : IsLive(Resolvable(n)[j])})

\* C9: each image dict that has an image URL and a video URL at stream.h264[0] gives exactly one item,
\* of type live_photo, whose image_url and video_url are the two URLs canonicalised; no video item
\* is added for it; and raw_urls holds the two URLs at its place, the image first.
LivePhotoIsOneItem ==
    (pc = "loop" /\ index > 1)
        => /\ Len(ImageEntries(media_items)) = Len(Resolvable(note))
           /\ Len(SelectSeq(media_items, LAMBDA m : m.type = "video")) = Len(VideoItems(note))
           /\ \A k \in 1..Len(Resolvable(note)) :
                IsLive(Resolvable(note)[k])
                    => /\ ImageEntries(media_items)[k] =
                            MediaItem("live_photo", NoneV,
                                      transform_xhs_cdn_url(extract_image_url(Resolvable(note)[k])),
                                      transform_xhs_cdn_url(extract_live_photo_video(Resolvable(note)[k])))
                       /\ Len(raw_urls) >= RawOffset(note, k) + 2
                       /\ raw_urls[RawOffset(note, k) + 1] = transform_xhs_cdn_url(extract_image_url(Resolvable(note)[k]))
                       /\ raw_urls[RawOffset(note, k) + 2] = transform_xhs_cdn_url(extract_live_photo_video(Resolvable(note)[k]))

\* A note with a video, a plain image and then a live photo whose image URL is rewritten
LivePhotoIsOneItemWitness ==
    /\ pc = "loop" /\ index > 1
    /\ Len(VideoItems(note)) > 0
    /\ Len(Resolvable(note)) = 2
    /\ ~IsLive(Resolvable(note)[1]) /\ IsLive(Resolvable(note)[2])
    /\ Len(media_items) = Len(VideoItems(note)) + 2
    /\ media_items[Len(media_items)].type = "live_photo"
    /\ media_items[Len(media_items)].image_url # extract_image_url(Resolvable(note)[2])

\* The URLs of one item: image_url and video_url of a live photo, url of any other item
UrlsOf(m) == IF m.type = "live_photo" THEN <<m.image_url, m.video_url>> ELSE <<m.url>>

\* C10: raw_urls is the URLs of the media items in the order of the items, the image_url before the
\* video_url of a live photo, with nothing added, dropped or reordered.
RawUrlsFlattenMedia ==
    (pc = "loop" /\ index > 1) => raw_urls = Concat([k \in 1..Len(media_items) |-> UrlsOf(media_items[k])])

\* A note that gives a video, a plain image and a live photo
RawUrlsFlattenMediaWitness ==
    /\ pc = "loop" /\ index > 1
    /\ \E a, b, c \in 1..Len(media_items) :
        media_items[a].type = "video" /\ media_items[b].type = "image" /\ media_items[c].type = "live_photo"
    /\ Len(raw_urls) = Len(media_items) + 1

\* ------------------------------------------------------------------ properties: outcome

\* C11: no outcome of _parse_post_details holds both notes and fallback URLs, an exception raised
\* after some notes were appended included.
NotesExcludeFallback == pc = "done" => (notes = <<>> \/ fallback_urls = <<>>)

\* The same without an exception in the loop: a JSON decode error is raised before any note is appended
NotesExcludeFallbackWithoutFault == (pc = "done" /\ ~fault) => (notes = <<>> \/ fallback_urls = <<>>)

\* ------------------------------------------------------------------ the normaliser, step by step

\* The number of pieces of a generated payload of the normaliser
MaxScanPieces == 3

\* Quotes of both kinds, a backslash, three of the tokens, an identifier character and a colon
ScanPieces == {<<"\"">>, <<"'">>, <<"\\">>, <<"N","a","N">>, <<"u","n","d","e","f","i","n","e","d">>, <<"-","I","n","f","i","n","i","t","y">>, <<"x">>, <<":"," ">>}

\* Payloads that need not be JSON: unterminated strings, stray and trailing backslashes, tokens at
\* either end
ScanPayloads == {Concat(ps) : ps \in SeqUpTo(ScanPieces, MaxScanPieces)}

\* The indices that prev_char and next_char subscript once payload.startswith(tokens[k], i) held;
\* TokenReads is this without the guards "if start_index > 0" and "if end_index < length"
TokenReadsUnguarded(s, i, k) == {i - 1, i + Len(tokens[k])}

\* prev_char = payload[start_index - 1] if start_index > 0 else ""
\* next_char = payload[end_index] if end_index < length else ""
TokenReads(s, i, k) ==
    (IF i > 0 THEN {i - 1} ELSE {}) \cup (IF i + Len(tokens[k]) < Len(s) THEN {i + Len(tokens[k])} ELSE {})

\* The tokens the for loop tries at index i: all of them, or those up to the one it breaks at
TokensTried(s, i) == {k \in 1..Len(tokens) : TokenAt(s, i) = 0 \/ k <= TokenAt(s, i)}

\* The indices of payload that one iteration of the while loop subscripts: ch = payload[i], and
\* outside a string the characters around each token that starts at i
IndexReads(s, st) ==
    {st.i} \cup
    (IF st.in_string \/ s[st.i + 1] \in {"\"", "'"} THEN {}
     ELSE UNION {TokenReads(s, st.i, k) : k \in {t \in TokensTried(s, st.i) : StartsWith(s, tokens[t], st.i)}})

\* _normalise_json_payload on a payload
InitNormalise ==
    /\ pc = "fast_path" /\ fault = FALSE /\ html = <<>>
    /\ notes = <<>> /\ fallback_urls = <<>> /\ normalised = <<>>
    /\ root = NoneV /\ note_objects = <<>> /\ index = 1
    /\ media_items = <<>> /\ raw_urls = <<>> /\ note = NoneV
    /\ url = NoneV /\ once = NoneV /\ twice = NoneV
    /\ payload \in ScanPayloads /\ scan_state = ScanInit

\* The fast path returns the payload; else INVALID_JSON_VALUE_PATTERN.sub starts at index 0
EnterScan ==
    /\ pc = "fast_path"
    /\ IF FastPath(payload)
       THEN pc' = "returned" /\ normalised' = payload
       ELSE pc' = "sub" /\ normalised' = normalised
    /\ UNCHANGED <<scan_state, html, fault, notes, fallback_urls, payload, root, note_objects, index, mediaVars, canonVars>>

\* INVALID_JSON_VALUE_PATTERN.sub(": null", payload) at one index: a match is replaced, any other
\* character is copied; scan_state holds the index and the text built so far
SubIteration ==
    /\ pc = "sub"
    /\ scan_state.i < Len(payload)
    /\ \E st \in {SubStep(payload, [i |-> scan_state.i, acc |-> scan_state.result])} :
        scan_state' = [scan_state EXCEPT !.i = st.i, !.result = st.acc]
    /\ UNCHANGED <<pc, html, fault, notes, fallback_urls, payload, normalised, root, note_objects, index, mediaVars, canonVars>>

\* payload = INVALID_JSON_VALUE_PATTERN.sub(...), and the locals of the while loop are set
SubReturn ==
    /\ pc = "sub"
    /\ ~(scan_state.i < Len(payload))
    /\ pc' = "while"
    /\ payload' = scan_state.result
    /\ scan_state' = ScanInit
    /\ UNCHANGED <<html, fault, notes, fallback_urls, normalised, root, note_objects, index, mediaVars, canonVars>>

\* One iteration of "while i < length"
ScanIteration ==
    /\ pc = "while"
    /\ scan_state.i < Len(payload)
    /\ scan_state' = ScanStep(payload, scan_state)
    /\ UNCHANGED <<pc, html, fault, notes, fallback_urls, payload, normalised, root, note_objects, index, mediaVars, canonVars>>

\* return "".join(result)
ScanReturn ==
    /\ pc = "while"
    /\ ~(scan_state.i < Len(payload))
    /\ pc' = "returned"
    /\ normalised' = scan_state.result
    /\ UNCHANGED <<scan_state, html, fault, notes, fallback_urls, payload, root, note_objects, index, mediaVars, canonVars>>

NextNormalise == EnterScan \/ SubIteration \/ SubReturn \/ ScanIteration \/ ScanReturn

\* A call that has started runs its next statement
SpecNormalise == InitNormalise /\ [][NextNormalise]_vars /\ WF_vars(NextNormalise)

\* ------------------------------------------------------------------ properties: totality

\* A str: a sequence of characters
IsString(s) == DOMAIN s = 1..Len(s) /\ \A k \in 1..Len(s) : s[k] \in STRING

\* Before each iteration: every index it subscripts is inside the payload, and i is not past its end
ScanInBounds ==
    pc = "while" =>
        /\ scan_state.i \in 0..Len(payload)
        /\ scan_state.i < Len(payload) => IndexReads(payload, scan_state) \subseteq 0..(Len(payload) - 1)

\* An iteration leaves i greater than it found it
ScanAdvances == ScanIteration => scan_state'.i > scan_state.i

\* The call has returned a string
ScanReturned == pc = "returned" /\ IsString(normalised)

\* C12: for every payload, each iteration of the scan subscripts the payload only inside it and
\* advances i by at least one, and the call ends by returning a string.
NormaliserTotal == []ScanInBounds /\ [][ScanAdvances]_vars /\ <>ScanReturned

\* An unterminated string that ends in a backslash was copied to the end after a token at index 0
\* was replaced
NormaliserTotalWitness ==
    /\ pc = "returned"
    /\ scan_state.in_string /\ scan_state.escape
    /\ TokenAt(payload, 0) # 0
    /\ normalised # payload
    /\ normalised[Len(normalised)] = "\\"

\* ------------------------------------------------------------------ the fallback scanner alone

\* The number of pieces of a generated text for the scanner
MaxTagPieces == 3

\* img tags as HTML writes them (either quote, upper case, blanks around "=", other attributes, an
\* xhscdn.com src without extension, a src that is no media URL), a tag with the backslashes that
\* IMG_TAG_PATTERN asks for, bare media URLs, and a blank
TagPieces == {
    <<"<","i","m","g"," ","s","r","c","=","\"","h","t","t","p","s",":","/","/","s","n","s","-","i","m","g",".","x","h","s","c","d","n",".","c","o","m","/","p","\"",">">>,
    <<"<","I","M","G"," ","a","l","t","=","'","x","'"," ","S","R","C"," ","="," ","'","h","t","t","p",":","/","/","a",".","j","p","g","'"," ","w","i","d","t","h","=","\"","1","\"",">">>,
    <<"<","i","m","g"," ","s","r","c","=","\"","h","t","t","p",":","\\","/","\\","/","x",".","c","o","m","\\","/","l","o","g","o",".","s","v","g","\"",">">>,
    <<"<","i","m","g"," ","s","r","c","\\","=","\\","\"","h","t","t","p",":","/","/","b",".","p","n","g","\"",">">>,
    <<"h","t","t","p",":","/","/","a",".","j","p","g">>,
    <<"h","t","t","p",":","/","/","d",".","g","i","f">>,
    <<" ">> }

ScannerDocuments == {Concat(ps) : ps \in SeqUpTo(TagPieces, MaxTagPieces)}

\* self._extract_urls_from_html(html), reached from _parse_post_details without the marker
InitScanner == Idle /\ pc = "scan" /\ html \in ScannerDocuments /\ root = NoneV /\ note_objects = <<>> /\ index = 1

NextScanner == Scan \/ Return

SpecScanner == InitScanner /\ [][NextScanner]_vars

\* ------------------------------------------------------------------ properties: img tags

\* <img ... src="URL" ...> read as r"<img[^>]+src\s*=\s*['\"]([^'\"]+)['\"][^>]*>", ignoring case:
\* ... "=" at index b, blanks, and the quoted URL
TagEquals(s, b) == IF b < Len(s) /\ s[b + 1] = "=" THEN ImgQuote(s, RunEnd(s, b + 1, Whitespace)) ELSE NoMatch

\* ... "src" at index q, then blanks
TagTailAt(s, q) == IF StartsWithLower(s, <<"s","r","c">>, q) THEN TagEquals(s, RunEnd(s, q + 3, Whitespace)) ELSE NoMatch

\* ... [^>]+ takes the longest run after which the rest matches
TagLongest(s, runs) == IF runs = {} THEN NoMatch ELSE TagTailAt(s, Max(runs))

\* The tag tried at index p
TagMatchAt(s, p) ==
    IF StartsWithLower(s, <<"<","i","m","g">>, p)
    THEN TagLongest(s, {q \in (p + 5)..RunEndNot(s, p + 4, {">"}) : TagTailAt(s, q).ok})
    ELSE NoMatch

RECURSIVE TagFindIter(_, _), TagFindFrom(_, _), TagFindNext(_, _)
\* The src values of the img tags of s from index p on, in the order of the text
TagFindIter(s, p) == TagFindFrom(s, {i \in p..(Len(s) - 1) : TagMatchAt(s, i).ok})

TagFindFrom(s, at) == IF at = {} THEN <<>> ELSE TagFindNext(s, TagMatchAt(s, Min(at)))

TagFindNext(s, m) == <<m.group>> \o TagFindIter(s, m.end)

\* The src values of the img tags of the decoded document that pass the media URL predicate
ImgTagSrcs(h) == SelectSeq(TagFindIter(decode_unicode_sequences(h), 0), LAMBDA u : is_valid_media_url(StrV(u)))

\* C13: the scanner's result begins with the src values of the document's img tags that pass the
\* media URL predicate, in the order of the tags; the bare URLs come after them.
ImgSrcsComeFirst ==
    pc = "unique" =>
        /\ Len(fallback_urls) >= Len(ImgTagSrcs(html))
        /\ SubSeq(fallback_urls, 1, Len(ImgTagSrcs(html))) = ImgTagSrcs(html)

\* What holds of the pattern as compiled: the result begins with the values of the tags that write
\* a backslash after "src" and after "="
CompiledPatternSrcsComeFirst ==
    pc = "unique" =>
        /\ Len(fallback_urls) >= Len(ImgUrls(decode_unicode_sequences(html)))
        /\ SubSeq(fallback_urls, 1, Len(ImgUrls(decode_unicode_sequences(html)))) = ImgUrls(decode_unicode_sequences(html))

\* ------------------------------------------------------------------ properties: recoverable images

\* A non-empty string
NonEmptyStr(v) == IsStr(v) /\ v.s # <<>>

\* The url values of the entries of an infoList that are non-empty strings, in the order of the list
InfoUrls(info_list) ==
    IF IsList(info_list)
    THEN SelectSeq([k \in 1..Len(info_list.kids) |-> Field(info_list.kids[k], <<"u","r","l">>)], NonEmptyStr)
    ELSE <<>>

\* The sources of an image's URL in the order urlDefault, url, traceId, infoList, each a non-empty string
Sources(image) ==
    SelectSeq(<<Get(image, <<"u","r","l","D","e","f","a","u","l","t">>), Get(image, <<"u","r","l">>)>>, NonEmptyStr)
    \o (IF NonEmptyStr(Get(image, <<"t","r","a","c","e","I","d">>))
        THEN <<StrV(<<"h","t","t","p","s",":","/","/","s","n","s","-","i","m","g","-","q","c",".","x","h","s","c","d","n",".","c","o","m","/">> \o Get(image, <<"t","r","a","c","e","I","d">>).s)>> ELSE <<>>)
    \o InfoUrls(Get(image, <<"i","n","f","o","L","i","s","t">>))

\* The image dicts of the note's image list that have a source
Recoverable(n) == {image \in Range(ImageList(n)) : IsDict(image) /\ Sources(image) # <<>>}

\* The image URL of an item of type image or live_photo
ImageUrlOf(m) == IF m.type = "live_photo" THEN m.image_url ELSE m.url

\* C14: every image dict of the note's image list that has a non-empty string under urlDefault, url
\* or traceId, or under url in an entry of its infoList, gives an item of type image or live_photo
\* whose image URL is the first of these sources, canonicalised.
NoRecoverableImageLost ==
    (pc = "loop" /\ index > 1)
        => \A image \in Recoverable(note) :
            \E k \in 1..Len(media_items) :
                /\ media_items[k].type \in {"image", "live_photo"}
                /\ ImageUrlOf(media_items[k]) = transform_xhs_cdn_url(Sources(image)[1])

\* What holds: an image whose first string among urlDefault, url, traceId is not empty, or that has
\* none of the three and a string url in its infoList, gives its item
FirstStringGivesItem ==
    (pc = "loop" /\ index > 1)
        => \A image \in {i \in Range(ImageList(note)) : IsDict(i) /\ Truthy(extract_image_url(i))} :
            \E k \in 1..Len(media_items) :
                /\ media_items[k].type \in {"image", "live_photo"}
                /\ ImageUrlOf(media_items[k]) = transform_xhs_cdn_url(extract_image_url(image))
====
